---- MODULE Spec2Model ----
(***************************************************************************)
(* A model of ecs_deployer/common.py: run_command, DockerImage,            *)
(* TaskDefinition and Service.                                             *)
(*                                                                         *)
(* A Python str is a sequence of symbols (one symbol per character, or per *)
(* fixed chunk such as "docker"), so that str.format, str.strip,           *)
(* bytes.decode and re.match are computed and not assumed.                 *)
(***************************************************************************)
EXTENDS Integers, Sequences, FiniteSets, TLC

VARIABLES
    logger,      \* records handed to logger.info / logger.error / print by the
                 \* most recent operation, in order
    rc,          \* the most recent direct run_command call: arguments and outcome
    image,       \* the DockerImage instance: name, repository, dockerfile, build, _tag
    imgCall,     \* the most recent operation on the image and what it did
    tagRuns,     \* how often the tag-resolution command has been executed
    tagOks,      \* how often it has exited zero
    tagValues,   \* every value a read of DockerImage.tag has returned
    taskdef,     \* the TaskDefinition instance's config
    ecsActive,   \* ECS: the active task-definition ARNs of the family
    ecsRevision, \* ECS: the last revision number given out for the family
    tdCall,      \* the most recent operation on the task definition and what it did
    service,     \* the Service instance: name and cluster
    ecsServices, \* ECS: the service ARNs of the cluster
    svcUpdated,  \* ECS: the service ARNs whose update_service call has succeeded
    svcCall      \* the most recent Service.handle() / update() and what it did

vars == <<logger, rc, image, imgCall, tagRuns, tagOks, tagValues,
          taskdef, ecsActive, ecsRevision, tdCall, service, ecsServices, svcUpdated,
          svcCall>>

runVars == <<rc>>
imageVars == <<image, imgCall, tagRuns, tagOks, tagValues>>
taskdefVars == <<taskdef, ecsActive, ecsRevision, tdCall>>
serviceVars == <<service, ecsServices, svcUpdated, svcCall>>

----------------------------------------------------------------------------
(* Bounds of the model *)

\* longest stdout, in bytes, a subprocess writes
MaxOutLen == 2
\* most executions of the tag-resolution command before the model stops
MaxTagRuns == 3
\* most container definitions of a task definition
MaxContainers == 2
\* most task definitions active in the family before the first handle()
MaxDefs == 2
\* most successful registrations before the model stops
MaxRegs == 1
\* most service ARNs one list_services call returns
MaxServices == 3

SeqsUpTo(S, n) == UNION {[1..k -> S] : k \in 0..n}

----------------------------------------------------------------------------
(* Python values *)

NoneVal == [none |-> TRUE, str |-> <<>>]
StrVal(s) == [none |-> FALSE, str |-> s]

\* the bytes a subprocess may write, and bytes.decode() on them
Bytes == {97, 10, 32}
Chr == (97 :> "a") @@ (10 :> "\n") @@ (32 :> " ")
Decode(bs) == [i \in 1..Len(bs) |-> Chr[bs[i]]]

Whitespace == {" ", "\n"}

RECURSIVE LStrip(_)
LStrip(s) ==
    IF s # <<>> /\ Head(s) \in Whitespace THEN LStrip(Tail(s)) ELSE s

RECURSIVE RStrip(_)
RStrip(s) ==
    IF s # <<>> /\ s[Len(s)] \in Whitespace
    THEN RStrip(SubSeq(s, 1, Len(s) - 1))
    ELSE s

\* str.strip()
Strip(s) == RStrip(LStrip(s))

\* '{}:{}'.format(a, b)
Format(a, b) == a \o <<":">> \o b

----------------------------------------------------------------------------
(* run_command *)

\* a command is a str (run through the shell) or a list of argument strs
StrCommand(s) == [isList |-> FALSE, val |-> s]
ListCommand(l) == [isList |-> TRUE, val |-> l]

\* what the subprocess does: its exit status and, on exit 0, its stdout
ExitCodes == {0, 1, 2}
Procs == [exit : ExitCodes, stdout : SeqsUpTo(Bytes, MaxOutLen)]

InfoRecord(command) == [level |-> "info", msg |-> "Running command", args |-> command]
PrintRecord(command) == [level |-> "print", msg |-> "Running command", args |-> command]
ErrorRecord(command) == [level |-> "error", msg |-> "Command failed", args |-> command]

\* faulty variant: run_command that never logs the error
RunCommandSilent(command, ignore_error, proc) ==
    LET argv == IF command.isList THEN command.val ELSE <<command.val>>
        said == <<InfoRecord(argv), PrintRecord(argv)>>
    IN  IF proc.exit = 0
        THEN [raised |-> FALSE, ret |-> StrVal(Decode(proc.stdout)), logs |-> said]
        ELSE IF ~ignore_error
             THEN [raised |-> TRUE, ret |-> NoneVal, logs |-> said]
             ELSE [raised |-> FALSE, ret |-> NoneVal, logs |-> said]

\* faulty variant: run_command that never raises
RunCommandSwallow(command, ignore_error, proc) ==
    LET argv == IF command.isList THEN command.val ELSE <<command.val>>
        said == <<InfoRecord(argv), PrintRecord(argv)>>
    IN  IF proc.exit = 0
        THEN [raised |-> FALSE, ret |-> StrVal(Decode(proc.stdout)), logs |-> said]
        ELSE [raised |-> FALSE, ret |-> NoneVal, logs |-> said]

\* run_command(command, ignore_error, **kwargs): the value returned or the
\* CalledProcessError raised, and the records logged on the way
RunCommand(command, ignore_error, proc) ==
    LET argv == IF command.isList THEN command.val ELSE <<command.val>>
        said == <<InfoRecord(argv), PrintRecord(argv)>>
    IN  IF proc.exit = 0
        THEN [raised |-> FALSE, ret |-> StrVal(Decode(proc.stdout)), logs |-> said]
        ELSE IF ~ignore_error
             THEN [raised |-> TRUE, ret |-> NoneVal,
                   logs |-> said \o <<ErrorRecord(argv)>>]
             ELSE [raised |-> FALSE, ret |-> NoneVal, logs |-> said]

----------------------------------------------------------------------------
(* DockerImage *)

\* The progress of one operation on an image: the instance (self), whether an
\* exception is propagating, the value of the last expression, the
\* subprocesses executed so far, the records logged, the values the tag
\* property has returned, and the executions of the tag-resolution command.
Start(self) ==
    [self |-> self, raised |-> FALSE, ret |-> NoneVal, issued |-> <<>>,
     logs |-> <<>>, values |-> {}, runs |-> 0, oks |-> 0]

\* what the outside world does during one operation: the tag-resolution
\* command's exit status and stdout, and the exit status of each docker command
DockerExits == {0, 1}
TagProcs == {p \in Procs : p.exit # 0 => (p.exit = 1 /\ p.stdout = <<>>)}
ImgEnvs == [tag : TagProcs, build : DockerExits, dtag : DockerExits, push : DockerExits]

\* m once the run_command call r of `command` has returned or raised
Ran(m, command, proc, r) ==
    [m EXCEPT !.raised = r.raised,
              !.ret = r.ret,
              !.issued = Append(@, [argv |-> IF command.isList THEN command.val
                                             ELSE <<command.val>>,
                                    exit |-> proc.exit]),
              !.logs = @ \o r.logs]

\* one run_command call made by a method of the image
Exec(m, command, proc) ==
    IF m.raised THEN m ELSE Ran(m, command, proc, RunCommand(command, FALSE, proc))

\* self._tag = <stdout>.strip(); return self._tag
StoreTag(n, v) ==
    [n EXCEPT !.self.tagAttr = [set |-> TRUE, val |-> v],
              !.oks = @ + 1,
              !.ret = StrVal(v),
              !.values = @ \cup {v}]

\* the except AttributeError branch of DockerImage.tag, n being the state
\* after its run_command call
Resolved(n) == IF n.raised THEN n ELSE StoreTag(n, Strip(n.ret.str))

ResolveTag(m, e) ==
    Resolved([Exec(m, StrCommand(m.self.tag_command), e.tag) EXCEPT !.runs = @ + 1])

\* faulty variant: a tag property that resolves the tag on every read
TagNoCache(m, e) == IF m.raised THEN m ELSE ResolveTag(m, e)

\* DockerImage.tag
Tag(m, e) ==
    IF m.raised THEN m
    ELSE IF m.self.tagAttr.set
    THEN [m EXCEPT !.ret = StrVal(m.self.tagAttr.val),
                   !.values = @ \cup {m.self.tagAttr.val}]
    ELSE ResolveTag(m, e)

\* '{}:{}'.format(prefix, self.tag), t being the state after reading self.tag
Tagged(prefix, t) ==
    IF t.raised THEN t ELSE [t EXCEPT !.ret = StrVal(Format(prefix, t.ret.str))]

\* DockerImage.tagged_name
TaggedName(m, e) == Tagged(m.self.name, Tag(m, e))

\* DockerImage.tagged_repo_name
TaggedRepoName(m, e) == Tagged(m.self.repository, Tag(m, e))

\* run_command(['docker', 'build', '-t', self.tagged_name, '-f', self.dockerfile, '.']),
\* a being the state after reading self.tagged_name
DockerBuild(a, e) ==
    Exec(a, ListCommand(<< <<"docker">>, <<"build">>, <<"-t">>, a.ret.str,
                           <<"-f">>, a.self.dockerfile, <<".">> >>),
         [exit |-> e.build, stdout |-> <<>>])

\* run_command(['docker', 'tag', source, self.tagged_repo_name]), d being the
\* state after reading self.tagged_repo_name
DockerTag(source, d, e) ==
    Exec(d, ListCommand(<< <<"docker">>, <<"tag">>, source, d.ret.str >>),
         [exit |-> e.dtag, stdout |-> <<>>])

\* run_command(['docker', 'push', self.tagged_repo_name])
DockerPush(d, e) ==
    Exec(d, ListCommand(<< <<"docker">>, <<"push">>, d.ret.str >>),
         [exit |-> e.push, stdout |-> <<>>])

\* the second statement of build_image, c being the state after reading
\* self.tagged_name for it
BuildImageTag(c, e) == DockerTag(c.ret.str, TaggedRepoName(c, e), e)

\* DockerImage.build_image
BuildImage(m, e) ==
    BuildImageTag(TaggedName(DockerBuild(TaggedName(m, e), e), e), e)

\* DockerImage.tag_image
TagImage(m, e) == DockerTag(m.self.name, TaggedRepoName(m, e), e)

\* DockerImage.push
Push(m, e) == DockerPush(TaggedRepoName(m, e), e)

\* faulty variant: handle() that pushes before it builds or tags
HandlePushFirst(m, e) ==
    TaggedRepoName(
        IF m.self.build THEN BuildImage(Push(m, e), e) ELSE TagImage(Push(m, e), e),
        e)

\* DockerImage.handle
Handle(m, e) ==
    TaggedRepoName(
        Push(IF m.self.build THEN BuildImage(m, e) ELSE TagImage(m, e), e),
        e)

\* the caller's view once the operation has returned or raised
Finish(op, m) ==
    /\ m.runs + tagRuns <= MaxTagRuns
    /\ image' = m.self
    /\ imgCall' = [op |-> op, raised |-> m.raised,
                   ret |-> IF m.raised THEN NoneVal ELSE m.ret,
                   issued |-> m.issued, cachedBefore |-> image.tagAttr.set]
    /\ logger' = m.logs
    /\ tagRuns' = tagRuns + m.runs
    /\ tagOks' = tagOks + m.oks
    /\ tagValues' = tagValues \cup m.values

GetTag ==
    /\ \E e \in ImgEnvs : Finish("tag", Tag(Start(image), e))
    /\ UNCHANGED <<runVars, taskdefVars, serviceVars>>

GetTaggedName ==
    /\ \E e \in ImgEnvs : Finish("tagged_name", TaggedName(Start(image), e))
    /\ UNCHANGED <<runVars, taskdefVars, serviceVars>>

GetTaggedRepoName ==
    /\ \E e \in ImgEnvs : Finish("tagged_repo_name", TaggedRepoName(Start(image), e))
    /\ UNCHANGED <<runVars, taskdefVars, serviceVars>>

CallBuildImage ==
    /\ \E e \in ImgEnvs : Finish("build_image", BuildImage(Start(image), e))
    /\ UNCHANGED <<runVars, taskdefVars, serviceVars>>

CallTagImage ==
    /\ \E e \in ImgEnvs : Finish("tag_image", TagImage(Start(image), e))
    /\ UNCHANGED <<runVars, taskdefVars, serviceVars>>

CallPush ==
    /\ \E e \in ImgEnvs : Finish("push", Push(Start(image), e))
    /\ UNCHANGED <<runVars, taskdefVars, serviceVars>>

CallHandle ==
    /\ \E e \in ImgEnvs : Finish("handle", Handle(Start(image), e))
    /\ UNCHANGED <<runVars, taskdefVars, serviceVars>>

NoImgCall == [op |-> "none", raised |-> FALSE, ret |-> NoneVal, issued |-> <<>>,
              cachedBefore |-> FALSE]
NoTag == [set |-> FALSE, val |-> <<>>]

\* DockerImage.__init__
NewImage(build) ==
    [name |-> <<"web">>, dockerfile |-> <<"Dockerfile">>,
     tag_command |-> <<"git rev-parse HEAD">>, repository |-> <<"registry/web">>,
     build |-> build, tagAttr |-> NoTag]

----------------------------------------------------------------------------
(* The state after construction, for each part of the program *)

NoRc == [command |-> StrCommand(<<>>), ignore_error |-> FALSE, exit |-> 0,
         stdout |-> <<>>, raised |-> FALSE, ret |-> NoneVal, called |-> FALSE]

RunInit == rc = NoRc

ImageInit(builds) ==
    /\ image \in {NewImage(b) : b \in builds}
    /\ imgCall = NoImgCall
    /\ tagRuns = 0
    /\ tagOks = 0
    /\ tagValues = {}

----------------------------------------------------------------------------
(* run_command called directly *)

Commands ==
    {StrCommand(<<"git rev-parse HEAD">>),
     StrCommand(<<"date +%s">>),
     ListCommand(<< <<"docker">>, <<"version">> >>),
     ListCommand(<< <<"aws">>, <<"ecr">>, <<"get-login">> >>)}

RcFinish(c, ig, p, r) ==
    /\ rc' = [command |-> c, ignore_error |-> ig, exit |-> p.exit,
              stdout |-> p.stdout,
              raised |-> r.raised, ret |-> r.ret, called |-> TRUE]
    /\ logger' = r.logs

CallRunCommand ==
    /\ \E c \in Commands, ig \in BOOLEAN, p \in Procs :
           RcFinish(c, ig, p, RunCommand(c, ig, p))
    /\ UNCHANGED <<imageVars, taskdefVars, serviceVars>>

----------------------------------------------------------------------------
(* TaskDefinition *)

\* dict.get(key, default)
Get(config, key, default) == IF key \in DOMAIN config THEN config[key] ELSE default

\* TaskDefinition.deregister_previous_definitions
DeregisterPreviousDefinitions(self) ==
    Get(self.config, "deregisterPreviousDefinitions", TRUE)

\* TaskDefinition.family
Family(self) == self.config["family"]

\* TaskDefinition.container_definitions
ContainerDefinitions(self) == self.config["containerDefinitions"]

\* The progress of one operation on a task definition: the instance, whether
\* an exception is propagating, the value returned, the ECS calls made so far
\* (each with its outcome), and the family's state in ECS.
TdStart(self, active, revision) ==
    [self |-> self, raised |-> FALSE, ret |-> NoneVal, calls |-> <<>>,
     failedAt |-> 0, listed |-> <<>>, active |-> active, revision |-> revision]

RECURSIVE SetImagesFrom(_, _, _)
SetImagesFrom(t, images, i) ==
    LET defs == ContainerDefinitions(t.self)
    IN  IF i > Len(defs) THEN t
        ELSE IF defs[i].image \notin DOMAIN images
        THEN [t EXCEPT !.raised = TRUE, !.failedAt = i]
        ELSE SetImagesFrom(
                 [t EXCEPT !.self.config["containerDefinitions"][i].image =
                               images[defs[i].image]],
                 images, i + 1)

\* faulty variant: set_images that restores the definitions when it fails
SetImagesAtomic(t, images) ==
    LET r == SetImagesFrom(t, images, 1)
    IN  IF r.raised THEN [t EXCEPT !.raised = TRUE, !.failedAt = r.failedAt] ELSE r

\* faulty variant: set_images that leaves an image it cannot map
SetImagesKeepMissing(t, images) ==
    LET defs == ContainerDefinitions(t.self)
    IN  [t EXCEPT !.self.config["containerDefinitions"] =
            [i \in 1..Len(defs) |->
                IF defs[i].image \in DOMAIN images
                THEN [defs[i] EXCEPT !.image = images[defs[i].image]]
                ELSE defs[i]]]

\* TaskDefinition.set_images
SetImages(t, images) == SetImagesFrom(t, images, 1)

TdArn(family, revision) == [family |-> family, revision |-> revision]

\* what ECS does during one handle(): whether the listing fails, the order in
\* which it returns the family's active definitions, which deregister call
\* fails (0: none) and whether the registration fails
Orders(S) ==
    {o \in [1..Cardinality(S) -> S] : \A i, j \in DOMAIN o : i # j => o[i] # o[j]}
TdEnvs(active) ==
    [listFail : BOOLEAN, order : Orders(active),
     deregFailAt : 0..Cardinality(active), registerFail : BOOLEAN]

RECURSIVE DeregisterFrom(_, _, _, _)
DeregisterFrom(t, definitions, i, e) ==
    IF i > Len(definitions) THEN t
    ELSE IF e.deregFailAt = i
    THEN [t EXCEPT !.raised = TRUE,
                   !.calls = Append(@, [api |-> "deregister_task_definition",
                                        arn |-> definitions[i], ok |-> FALSE])]
    ELSE DeregisterFrom(
             [t EXCEPT !.active = @ \ {definitions[i]},
                       !.calls = Append(@, [api |-> "deregister_task_definition",
                                            arn |-> definitions[i], ok |-> TRUE])],
             definitions, i + 1, e)

ListCall(ok) ==
    [api |-> "list_task_definitions", arn |-> TdArn(<<>>, 0), ok |-> ok]

\* faulty variant: a deregister loop that stops one definition short
DeregisterAllButLast(t, e) ==
    IF t.raised THEN t
    ELSE IF e.listFail
    THEN [t EXCEPT !.raised = TRUE, !.calls = Append(@, ListCall(FALSE))]
    ELSE DeregisterFrom([t EXCEPT !.calls = Append(@, ListCall(TRUE)),
                                  !.listed = e.order],
                        SubSeq(e.order, 1, Len(e.order) - 1), 1, e)

\* TaskDefinition.deregister_existing_definitions
DeregisterExistingDefinitions(t, e) ==
    IF t.raised THEN t
    ELSE IF e.listFail
    THEN [t EXCEPT !.raised = TRUE, !.calls = Append(@, ListCall(FALSE))]
    ELSE DeregisterFrom([t EXCEPT !.calls = Append(@, ListCall(TRUE)),
                                  !.listed = e.order],
                        e.order, 1, e)

DigitStr == <<"1", "2", "3", "4", "5", "6", "7", "8", "9">>

\* TaskDefinition.register
Register(t, e) ==
    IF t.raised THEN t
    ELSE IF e.registerFail
    THEN [t EXCEPT !.raised = TRUE,
                   !.calls = Append(@, [api |-> "register_task_definition",
                                        arn |-> TdArn(Family(t.self), 0),
                                        ok |-> FALSE])]
    ELSE LET n == t.revision + 1
         IN  [t EXCEPT !.revision = n,
                       !.active = @ \cup {TdArn(Family(t.self), n)},
                       !.calls = Append(@, [api |-> "register_task_definition",
                                            arn |-> TdArn(Family(t.self), n),
                                            ok |-> TRUE]),
                       !.ret = StrVal(Format(Family(t.self), <<DigitStr[n]>>))]

\* faulty variant: handle() that registers before it deregisters
TdHandleRegisterFirst(t, e) ==
    LET a == Register(t, e)
    IN  IF a.raised \/ ~DeregisterPreviousDefinitions(t.self) THEN a
        ELSE [DeregisterExistingDefinitions(a, e) EXCEPT !.ret = a.ret]

\* TaskDefinition.handle
TdHandle(t, e) ==
    Register(IF DeregisterPreviousDefinitions(t.self)
             THEN DeregisterExistingDefinitions(t, e)
             ELSE t, e)

TdFinish(op, images, t) ==
    /\ t.revision <= MaxDefs + MaxRegs
    /\ taskdef' = t.self
    /\ ecsActive' = t.active
    /\ ecsRevision' = t.revision
    /\ tdCall' = [op |-> op, raised |-> t.raised,
                  ret |-> IF t.raised THEN NoneVal ELSE t.ret,
                  calls |-> t.calls, failedAt |-> t.failedAt,
                  images |-> images, listed |-> t.listed,
                  revisionBefore |-> ecsRevision,
                  before |-> ContainerDefinitions(taskdef),
                  activeBefore |-> ecsActive]
    /\ logger' = <<>>

\* the strs an image field or a value of the image map may hold
ImageKeys == {<<"web">>, <<"db">>}
ImageValues == {<<"web">>, <<"registry/web", ":", "a">>}
ImageMaps == UNION {[K -> ImageValues] : K \in SUBSET ImageKeys}
NoImages == [k \in {} |-> <<>>]

CallSetImages ==
    /\ \E images \in ImageMaps :
           TdFinish("set_images", images,
                    SetImages(TdStart(taskdef, ecsActive, ecsRevision), images))
    /\ UNCHANGED <<runVars, imageVars, serviceVars>>

CallTdHandle ==
    /\ \E e \in TdEnvs(ecsActive) :
           TdFinish("handle", NoImages,
                    TdHandle(TdStart(taskdef, ecsActive, ecsRevision), e))
    /\ UNCHANGED <<runVars, imageVars, serviceVars>>

TdFamily == <<"api">>
Container(img) == [name |-> <<"app">>, image |-> img]
TdConfigs ==
    LET base == {[family |-> TdFamily, containerDefinitions |-> defs] :
                    defs \in {[i \in 1..k |-> Container(f[i])] :
                                 k \in 0..MaxContainers,
                                 f \in [1..MaxContainers -> ImageKeys \cup ImageValues]}}
    IN  base \cup {c @@ [deregisterPreviousDefinitions |-> b] :
                      c \in base, b \in BOOLEAN}

NoTdCall == [op |-> "none", raised |-> FALSE, ret |-> NoneVal, calls |-> <<>>,
             failedAt |-> 0, images |-> NoImages, listed |-> <<>>,
             revisionBefore |-> 0, before |-> <<>>, activeBefore |-> {}]

\* TaskDefinition.__init__, and the family as ECS holds it at that moment
TaskDefInit(configs, actives) ==
    /\ taskdef \in {[name |-> <<"api">>, config |-> c] : c \in configs}
    /\ ecsActive \in actives
    /\ ecsRevision = MaxDefs
    /\ tdCall = NoTdCall

----------------------------------------------------------------------------
(* Service *)

\* the atoms of a regular expression
Lit(c) == [kind |-> "lit", sym |-> c]
AnyChar == [kind |-> "any", sym |-> "."]
NotColonPlus == [kind |-> "[^:]+", sym |-> ":"]

\* r'arn:aws:ecs:[^:]+:[^:]+:service/{}'.format(name): the name is pasted into
\* the pattern, so a "." in it is the regular expression's any-character
Pattern(name) ==
    <<Lit("arn"), Lit(":"), Lit("aws"), Lit(":"), Lit("ecs"), Lit(":"),
      NotColonPlus, Lit(":"), NotColonPlus, Lit(":"), Lit("service/")>>
    \o [i \in 1..Len(name) |-> IF name[i] = "." THEN AnyChar ELSE Lit(name[i])]

\* whether pattern p from atom i on matches s from position j on (the end of
\* s need not be reached)
RECURSIVE MatchFrom(_, _, _, _)
MatchFrom(p, i, s, j) ==
    IF i > Len(p) THEN TRUE
    ELSE IF p[i].kind = "lit"
    THEN j <= Len(s) /\ s[j] = p[i].sym /\ MatchFrom(p, i + 1, s, j + 1)
    ELSE IF p[i].kind = "any"
    THEN j <= Len(s) /\ s[j] # "\n" /\ MatchFrom(p, i + 1, s, j + 1)
    ELSE \E k \in 1..(Len(s) - j + 1) :
            /\ \A x \in j..(j + k - 1) : s[x] # ":"
            /\ MatchFrom(p, i + 1, s, j + k)

\* re.match(p, s)
ReMatch(p, s) == MatchFrom(p, 1, s, 1)

\* Service.cluster
Cluster(self) == self.config["cluster"]

\* The progress of one update(): whether an exception is propagating, the ECS
\* calls made so far (each with its outcome) and the services updated in ECS.
SvcStart(self, updated) ==
    [self |-> self, raised |-> FALSE, calls |-> <<>>, updated |-> updated]

UpdateCall(arn, ok) == [api |-> "update_service", service |-> arn, ok |-> ok]
ListServicesCall(cluster, ok) == [api |-> "list_services", service |-> cluster, ok |-> ok]

RECURSIVE UpdateFrom(_, _, _, _)
UpdateFrom(t, matched, i, e) ==
    IF i > Len(matched) THEN t
    ELSE IF e.updateFailAt = i
    THEN [t EXCEPT !.raised = TRUE,
                   !.calls = Append(@, UpdateCall(matched[i], FALSE))]
    ELSE UpdateFrom([t EXCEPT !.updated = @ \cup {matched[i]},
                              !.calls = Append(@, UpdateCall(matched[i], TRUE))],
                    matched, i + 1, e)

\* faulty variant: an update loop that carries on after a failed call
RECURSIVE UpdateFromKeepGoing(_, _, _, _)
UpdateFromKeepGoing(t, matched, i, e) ==
    IF i > Len(matched) THEN t
    ELSE IF e.updateFailAt = i
    THEN UpdateFromKeepGoing(
             [t EXCEPT !.raised = TRUE,
                       !.calls = Append(@, UpdateCall(matched[i], FALSE))],
             matched, i + 1, e)
    ELSE UpdateFromKeepGoing(
             [t EXCEPT !.updated = @ \cup {matched[i]},
                       !.calls = Append(@, UpdateCall(matched[i], TRUE))],
             matched, i + 1, e)

Matching(self, s) == ReMatch(Pattern(self.name), s)

UpdateKeepGoing(t, e) ==
    IF e.listFail
    THEN [t EXCEPT !.raised = TRUE,
                   !.calls = Append(@, ListServicesCall(Cluster(t.self), FALSE))]
    ELSE UpdateFromKeepGoing(
             [t EXCEPT !.calls = Append(@, ListServicesCall(Cluster(t.self), TRUE))],
             SelectSeq(e.services, LAMBDA s : Matching(t.self, s)), 1, e)

\* faulty variant: update() that does not filter the listing
UpdateUnfiltered(t, e) ==
    IF e.listFail
    THEN [t EXCEPT !.raised = TRUE,
                   !.calls = Append(@, ListServicesCall(Cluster(t.self), FALSE))]
    ELSE UpdateFrom([t EXCEPT !.calls = Append(@, ListServicesCall(Cluster(t.self), TRUE))],
                    e.services, 1, e)

\* Service.update
Update(t, e) ==
    IF e.listFail
    THEN [t EXCEPT !.raised = TRUE,
                   !.calls = Append(@, ListServicesCall(Cluster(t.self), FALSE))]
    ELSE UpdateFrom([t EXCEPT !.calls = Append(@, ListServicesCall(Cluster(t.self), TRUE))],
                    SelectSeq(e.services, LAMBDA s : Matching(t.self, s)), 1, e)

\* Service.handle
SvcHandle(t, e) == Update(t, e)

\* the service ARNs a cluster may hold
Arn(svc, resource) ==
    <<"arn", ":", "aws", ":", svc, ":", "us-east-1", ":", "123", ":">> \o resource
Arns ==
    {Arn("ecs", <<"service/", "b">>),
     Arn("ecs", <<"service/", "b", "w">>),
     Arn("ecs", <<"service/", "w">>),
     Arn("ecs", <<"service/", "w", "b">>),
     Arn("ecs", <<"task/", "b">>),
     Arn("s3", <<"service/", "b">>)}
SvcNames == {<<"b">>, <<"w">>, <<"b", "w">>, <<".">>}
Clusters == {S \in SUBSET Arns : Cardinality(S) <= MaxServices}

\* what ECS does during one update(): whether the listing fails, the order in
\* which it returns the cluster's service ARNs, and which update_service call
\* fails (0: none)
SvcEnvs(services) ==
    {[listFail |-> TRUE, services |-> <<>>, updateFailAt |-> 0]}
    \cup {[listFail |-> FALSE, services |-> l, updateFailAt |-> k] :
             l \in Orders(services), k \in 0..Cardinality(services)}

SvcFinish(e, t) ==
    /\ svcUpdated' = t.updated
    /\ svcCall' = [op |-> "handle", raised |-> t.raised, calls |-> t.calls,
                   listed |-> e.services]
    /\ logger' = <<>>

CallSvcHandle ==
    /\ \E e \in SvcEnvs(ecsServices) :
           SvcFinish(e, SvcHandle(SvcStart(service, svcUpdated), e))
    /\ UNCHANGED <<service, ecsServices, runVars, imageVars, taskdefVars>>

NoSvcCall == [op |-> "none", raised |-> FALSE, calls |-> <<>>, listed |-> <<>>]

\* Service.__init__, and the cluster as ECS holds it at that moment
ServiceInit(names, clusters) ==
    /\ service \in {[name |-> n, config |-> [cluster |-> <<"prod">>]] : n \in names}
    /\ ecsServices \in clusters
    /\ svcUpdated = {}
    /\ svcCall = NoSvcCall

----------------------------------------------------------------------------
(* Specifications: one per part of the program; the other parts stay as       *)
(* constructed                                                                 *)

InitRun ==
    /\ logger = <<>>
    /\ RunInit
    /\ ImageInit({TRUE})
    /\ TaskDefInit({[family |-> TdFamily, containerDefinitions |-> <<>>]}, {{}})
    /\ ServiceInit({<<"b">>}, {{}})

NextRun == CallRunCommand

SpecRun == InitRun /\ [][NextRun]_vars

InitImage ==
    /\ logger = <<>>
    /\ RunInit
    /\ ImageInit(BOOLEAN)
    /\ TaskDefInit({[family |-> TdFamily, containerDefinitions |-> <<>>]}, {{}})
    /\ ServiceInit({<<"b">>}, {{}})

NextImage ==
    \/ GetTag
    \/ GetTaggedName
    \/ GetTaggedRepoName
    \/ CallBuildImage
    \/ CallTagImage
    \/ CallPush
    \/ CallHandle

SpecImage == InitImage /\ [][NextImage]_vars

InitTaskDef ==
    /\ logger = <<>>
    /\ RunInit
    /\ ImageInit({TRUE})
    /\ TaskDefInit(TdConfigs, SUBSET {TdArn(TdFamily, n) : n \in 1..MaxDefs})
    /\ ServiceInit({<<"b">>}, {{}})

NextTaskDef ==
    \/ CallSetImages
    \/ CallTdHandle

SpecTaskDef == InitTaskDef /\ [][NextTaskDef]_vars

InitService ==
    /\ logger = <<>>
    /\ RunInit
    /\ ImageInit({TRUE})
    /\ TaskDefInit({[family |-> TdFamily, containerDefinitions |-> <<>>]}, {{}})
    /\ ServiceInit(SvcNames, Clusters)

NextService == CallSvcHandle

SpecService == InitService /\ [][NextService]_vars

----------------------------------------------------------------------------
(* Properties of DockerImage, under SpecImage *)

IsPrefix(a, b) == Len(a) <= Len(b) /\ SubSeq(b, 1, Len(a)) = a

IsDocker(c) == c.argv[1] = <<"docker">>
\* the docker subcommands among the subprocesses of a call, in order
DockerVerbs(issued) ==
    LET d == SelectSeq(issued, IsDocker)
    IN  [i \in 1..Len(d) |-> d[i].argv[2]]

Issued(v, w) == \E k \in 1..Len(v) : v[k] = w

ExpectedVerbs(build) ==
    IF build THEN << <<"build">>, <<"tag">>, <<"push">> >>
    ELSE << <<"tag">>, <<"push">> >>

\* C1: handle() issues its docker commands in a fixed order: build, tag, push
\* when build is true; tag, push (never build) when build is false.  A call
\* that stops early has issued an initial part of that sequence, a call that
\* returns has issued all of it, and docker push is the last command, issued
\* only after every earlier subprocess of the call has exited zero.
C1_HandleOrder ==
    imgCall.op = "handle" =>
        LET v == DockerVerbs(imgCall.issued)
            n == Len(imgCall.issued)
        IN  /\ IsPrefix(v, ExpectedVerbs(image.build))
            /\ ~imgCall.raised => v = ExpectedVerbs(image.build)
            /\ ~image.build => \A i \in 1..Len(v) : v[i] # <<"build">>
            /\ \A i \in 1..n :
                   (IsDocker(imgCall.issued[i]) /\ imgCall.issued[i].argv[2] = <<"push">>)
                   => /\ i = n
                      /\ \A j \in 1..(i - 1) : imgCall.issued[j].exit = 0

C1_Witness ==
    /\ imgCall.op = "handle"
    /\ image.build
    /\ ~imgCall.raised
    /\ DockerVerbs(imgCall.issued) = << <<"build">>, <<"tag">>, <<"push">> >>

\* C2 as stated: the tag-resolution command is executed at most once for the
\* instance and every read of tag returns the same value.
C2_ExecutedAtMostOnce ==
    /\ tagRuns <= 1
    /\ Cardinality(tagValues) <= 1

IsTagCommand(c) == c.argv = <<image.tag_command>>

\* C2 as amended: the tag-resolution command exits zero at most once for the
\* instance; an operation that starts with the tag cached never executes it;
\* every read of tag that returns a value returns the same, cached, value.  (An
\* execution that fails caches nothing, so the next read executes it again.)
C2_MemoizedOnceResolved ==
    /\ tagOks <= 1
    /\ Cardinality(tagValues) <= 1
    /\ image.tagAttr.set <=> tagOks = 1
    /\ image.tagAttr.set => tagValues = {image.tagAttr.val}
    /\ ~image.tagAttr.set => tagValues = {}
    /\ imgCall.cachedBefore =>
           \A i \in 1..Len(imgCall.issued) : ~IsTagCommand(imgCall.issued[i])

C2_Witness ==
    /\ tagRuns = 2
    /\ tagOks = 1
    /\ imgCall.op = "tag"
    /\ imgCall.cachedBefore
    /\ imgCall.ret = StrVal(image.tagAttr.val)

\* C7: in handle(), a subprocess that exits non-zero is the last one of the
\* call, the call raises and yields no repository:tag value; so a failed
\* tag-resolution leaves no docker command run, a failed build leaves tag and
\* push not run, a failed docker tag leaves push not run.  A call that returns
\* yields repository:tag.
C7_HandleFailurePropagates ==
    imgCall.op = "handle" =>
        LET n == Len(imgCall.issued)
            v == DockerVerbs(imgCall.issued)
        IN  /\ \A i \in 1..n :
                   imgCall.issued[i].exit # 0
                   => /\ i = n
                      /\ imgCall.raised
                      /\ imgCall.ret = NoneVal
            /\ (n > 0 /\ IsTagCommand(imgCall.issued[1]) /\ imgCall.issued[1].exit # 0)
               => v = <<>>
            /\ \A i \in 1..n :
                   (IsDocker(imgCall.issued[i]) /\ imgCall.issued[i].exit # 0)
                   => /\ imgCall.issued[i].argv[2] = <<"build">>
                          => ~Issued(v, <<"tag">>) /\ ~Issued(v, <<"push">>)
                      /\ imgCall.issued[i].argv[2] = <<"tag">> => ~Issued(v, <<"push">>)
            /\ imgCall.raised => (n > 0 /\ imgCall.issued[n].exit # 0)
            /\ ~imgCall.raised =>
                   imgCall.ret = StrVal(image.repository \o <<":">> \o image.tagAttr.val)

C7_Witness ==
    /\ imgCall.op = "handle"
    /\ imgCall.raised
    /\ imgCall.ret = NoneVal
    /\ DockerVerbs(imgCall.issued) = << <<"build">> >>
    /\ imgCall.issued[Len(imgCall.issued)].exit # 0

----------------------------------------------------------------------------
(* Properties of run_command, under SpecRun *)

ErrorLogged == \E i \in 1..Len(logger) : logger[i].level = "error"

\* C6 as stated: on a non-zero exit the error is logged in every case, then
\* the call returns normally if ignore_error and raises otherwise; on exit
\* zero the decoded stdout is returned and no error is logged.
C6_ErrorAlwaysLogged ==
    rc.called =>
        /\ rc.exit # 0 =>
               /\ ErrorLogged
               /\ rc.ignore_error => ~rc.raised
               /\ ~rc.ignore_error => rc.raised
        /\ rc.exit = 0 =>
               /\ ~rc.raised
               /\ rc.ret = StrVal([i \in 1..Len(rc.stdout) |-> Chr[rc.stdout[i]]])
               /\ ~ErrorLogged

\* C6 as amended: on a non-zero exit, if ignore_error is true the call returns
\* normally (None) without logging the error and without raising; otherwise
\* the error is logged and the call raises.  On exit zero the decoded stdout
\* is returned and no error is logged.
C6_ErrorLoggedUnlessIgnored ==
    rc.called =>
        /\ (rc.exit # 0 /\ rc.ignore_error) =>
               /\ ~ErrorLogged
               /\ ~rc.raised
               /\ rc.ret = NoneVal
        /\ (rc.exit # 0 /\ ~rc.ignore_error) =>
               /\ ErrorLogged
               /\ rc.raised
        /\ rc.exit = 0 =>
               /\ ~rc.raised
               /\ rc.ret = StrVal([i \in 1..Len(rc.stdout) |-> Chr[rc.stdout[i]]])
               /\ ~ErrorLogged

C6_Witness ==
    /\ rc.called
    /\ rc.exit # 0
    /\ rc.ignore_error
    /\ ~rc.raised
    /\ ~ErrorLogged

----------------------------------------------------------------------------
(* Properties of TaskDefinition, under SpecTaskDef *)

\* whether the instance asks for deregistration: the config's value, true
\* when the key is absent
DeregisterAsked ==
    \/ "deregisterPreviousDefinitions" \notin DOMAIN taskdef.config
    \/ taskdef.config["deregisterPreviousDefinitions"] = TRUE

IsRegister(c) == c.api = "register_task_definition"
IsList(c) == c.api = "list_task_definitions"

\* C3: in handle(), when deregistration is asked for (the default), a
\* register_task_definition call comes only after the listing and after a
\* successful deregister call for every listed ARN, in listing order; when
\* it is not asked for, the only call made is the registration.
C3_DeregisterBeforeRegister ==
    tdCall.op = "handle" =>
        LET calls == tdCall.calls
            n == Len(calls)
        IN  IF DeregisterAsked
            THEN /\ n >= 1 /\ IsList(calls[1])
                 /\ \A i \in 1..n : IsRegister(calls[i]) =>
                        /\ i = n
                        /\ i = Len(tdCall.listed) + 2
                        /\ \A k \in 1..Len(tdCall.listed) :
                               calls[k + 1] =
                                   [api |-> "deregister_task_definition",
                                    arn |-> tdCall.listed[k], ok |-> TRUE]
                 /\ ~tdCall.raised => IsRegister(calls[n])
            ELSE /\ n = 1
                 /\ IsRegister(calls[1])
                 /\ ecsActive \cap tdCall.activeBefore = tdCall.activeBefore

C3_Witness ==
    /\ tdCall.op = "handle"
    /\ "deregisterPreviousDefinitions" \notin DOMAIN taskdef.config
    /\ Len(tdCall.listed) = 2
    /\ ~tdCall.raised
    /\ IsRegister(tdCall.calls[Len(tdCall.calls)])

\* C9: in handle() with deregistration asked for, when every deregister call
\* has succeeded and the registration fails, every listed definition is
\* deregistered, no new revision exists, the family has no active definition
\* left, no call follows the failed registration, and handle() raises.
C9_FailedRegisterLeavesNone ==
    (/\ tdCall.op = "handle"
     /\ DeregisterAsked
     /\ \E i \in 1..Len(tdCall.calls) :
            IsRegister(tdCall.calls[i]) /\ ~tdCall.calls[i].ok)
    => /\ tdCall.raised
       /\ tdCall.ret = NoneVal
       /\ ~tdCall.calls[Len(tdCall.calls)].ok
       /\ IsRegister(tdCall.calls[Len(tdCall.calls)])
       /\ \A k \in 1..Len(tdCall.listed) : tdCall.listed[k] \notin ecsActive
       /\ ecsRevision = tdCall.revisionBefore
       /\ ecsActive = {}

C9_Witness ==
    /\ tdCall.op = "handle"
    /\ DeregisterAsked
    /\ tdCall.raised
    /\ Len(tdCall.listed) = 2
    /\ Len(tdCall.calls) = 4
    /\ IsRegister(tdCall.calls[4])
    /\ ecsActive = {}

\* C5: set_images(images) replaces every container definition's image by
\* images[image] and changes nothing else; when some container's image is
\* not a key of images the call raises (at the first such container) and
\* no container is left holding a value that passed for mapped.
C5_SetImagesMapsOrFails ==
    tdCall.op = "set_images" =>
        LET before == tdCall.before
            after == ContainerDefinitions(taskdef)
            images == tdCall.images
            missing == {i \in 1..Len(before) : before[i].image \notin DOMAIN images}
        IN  /\ Len(after) = Len(before)
            /\ tdCall.raised <=> missing # {}
            /\ missing = {} =>
                   \A i \in 1..Len(before) :
                       after[i] = [name |-> before[i].name,
                                   image |-> images[before[i].image]]
            /\ missing # {} =>
                   /\ tdCall.failedAt \in missing
                   /\ \A i \in missing : tdCall.failedAt <= i

C5_Witness ==
    /\ tdCall.op = "set_images"
    /\ tdCall.raised
    /\ Len(tdCall.before) = 2
    /\ tdCall.failedAt = 2

\* what a failed set_images leaves behind: the containers before the failing
\* one mapped, the failing one and those after it untouched
PartlyMapped ==
    LET before == tdCall.before
        after == ContainerDefinitions(taskdef)
    IN  /\ Len(after) = Len(before)
        /\ \A j \in 1..(tdCall.failedAt - 1) :
               after[j] = [before[j] EXCEPT !.image = tdCall.images[before[j].image]]
        /\ \A j \in tdCall.failedAt..Len(before) : after[j] = before[j]

\* C10 as stated (positions counted from 1 here): a set_images that fails at
\* container i leaves the containers before i mapped and the others
\* unchanged, and the entity's state differs from the state before the call
\* whenever i is not the first container.
C10_FailedSetImagesAlwaysDiffers ==
    (tdCall.op = "set_images" /\ tdCall.raised) =>
        /\ PartlyMapped
        /\ tdCall.failedAt > 1 => ContainerDefinitions(taskdef) # tdCall.before

\* C10 as amended: a set_images that fails at container i leaves the
\* containers before i mapped and the others unchanged; the entity's state
\* differs from the state before the call exactly when some container before
\* i is mapped to a value other than the one it held.
C10_FailedSetImagesPartial ==
    (tdCall.op = "set_images" /\ tdCall.raised) =>
        /\ PartlyMapped
        /\ ContainerDefinitions(taskdef) # tdCall.before
           <=> \E j \in 1..(tdCall.failedAt - 1) :
                   tdCall.images[tdCall.before[j].image] # tdCall.before[j].image

C10_Witness ==
    /\ tdCall.op = "set_images"
    /\ tdCall.raised
    /\ tdCall.failedAt = 2
    /\ ContainerDefinitions(taskdef)[1].image # tdCall.before[1].image
    /\ ContainerDefinitions(taskdef)[2] = tdCall.before[2]

----------------------------------------------------------------------------
(* Properties of Service, under SpecService *)

NoColon(s) == \A i \in 1..Len(s) : s[i] # ":"

\* s begins with arn:aws:ecs:<partition>:<account>:service/<name>, the two
\* fields being non-empty and free of colons (a "." of the name standing for
\* any one character, as the name is pasted into a regular expression)
HasServicePrefix(name, s) ==
    \E r, a \in 1..Len(s) :
        /\ Len(s) >= 9 + r + a + Len(name)
        /\ SubSeq(s, 1, 6) = <<"arn", ":", "aws", ":", "ecs", ":">>
        /\ NoColon(SubSeq(s, 7, 6 + r))
        /\ s[7 + r] = ":"
        /\ NoColon(SubSeq(s, 8 + r, 7 + r + a))
        /\ s[8 + r + a] = ":"
        /\ s[9 + r + a] = "service/"
        /\ \A i \in 1..Len(name) :
               name[i] = s[9 + r + a + i] \/ (name[i] = "." /\ s[9 + r + a + i] # "\n")

ShouldUpdate(s) == HasServicePrefix(service.name, s)
IsUpdate(c) == c.api = "update_service"

\* the ARNs update_service was called with, in call order
UpdateTargets ==
    LET u == SelectSeq(svcCall.calls, IsUpdate)
    IN  [i \in 1..Len(u) |-> u[i].service]

\* C4: update() calls update_service once for each listed ARN that begins
\* with arn:aws:ecs:<partition>:<account>:service/<name>, for no other ARN,
\* in listing order: the calls made are always an initial part of the
\* matching ARNs in listing order, and all of them once update() returns.
C4_UpdatesExactlyMatching ==
    svcCall.op = "handle" =>
        LET expected == SelectSeq(svcCall.listed, ShouldUpdate)
        IN  /\ IsPrefix(UpdateTargets, expected)
            /\ ~svcCall.raised => UpdateTargets = expected
            /\ \A i \in 2..Len(svcCall.calls) : IsUpdate(svcCall.calls[i])

C4_Witness ==
    /\ svcCall.op = "handle"
    /\ ~svcCall.raised
    /\ service.name = <<"b">>
    /\ Len(svcCall.listed) = 3
    /\ UpdateTargets = <<Arn("ecs", <<"service/", "b", "w">>),
                         Arn("ecs", <<"service/", "b">>)>>

\* C8: when the update_service call for the k-th matching service fails, it
\* is the last call of update(), the k-1 matching services before it are
\* updated in ECS, none of the matching services after it is attempted, no
\* call undoes an update, and the failure propagates.
C8_NoRollback ==
    (svcCall.op = "handle"
     /\ \E i \in 1..Len(svcCall.calls) :
            IsUpdate(svcCall.calls[i]) /\ ~svcCall.calls[i].ok)
    => LET expected == SelectSeq(svcCall.listed, ShouldUpdate)
           k == Len(UpdateTargets)
       IN  /\ svcCall.raised
           /\ ~svcCall.calls[Len(svcCall.calls)].ok
           /\ \A i \in 1..(Len(svcCall.calls) - 1) : svcCall.calls[i].ok
           /\ k <= Len(expected)
           /\ UpdateTargets = SubSeq(expected, 1, k)
           /\ \A j \in 1..(k - 1) : expected[j] \in svcUpdated
           /\ \A i \in 2..Len(svcCall.calls) : IsUpdate(svcCall.calls[i])

C8_Witness ==
    /\ svcCall.op = "handle"
    /\ svcCall.raised
    /\ Len(SelectSeq(svcCall.listed, ShouldUpdate)) = 3
    /\ Len(UpdateTargets) = 2
    /\ UpdateTargets[1] \in svcUpdated
    /\ UpdateTargets[2] \notin svcUpdated

====
